---- MODULE Spec2Model ----
(***************************************************************************)
(* Model of reference/qcvv/relaxation_and_decoherence.ipynb.               *)
(*                                                                         *)
(* The file holds two notebooks.  The first one (relaxation and            *)
(* decoherence) is a Jupyter kernel whose global names are the variables   *)
(* below; every code cell is one action.  The second one (Deutsch-Josza)   *)
(* is a separate kernel with its own variables and its own specification.  *)
(*                                                                         *)
(* Real numbers are exact rationals <<num, den>> in lowest terms.  A       *)
(* square root is kept as its radicand (sigma_data, ferr for inf-free      *)
(* perfect squares are computed exactly).                                  *)
(***************************************************************************)
EXTENDS Integers, Sequences, FiniteSets, TLC

VARIABLES
    mode,          \* how the cells are driven: "runall" (top to bottom) or "kernel" (any order)
    pc,            \* position of "Run All" in the notebook (index of the next cell)
    halted,        \* TRUE once a cell of "Run All" has raised
    nexec,         \* number of cells executed so far
    defined,       \* the global names that are bound in the kernel
    Q_program,     \* circuits registered in the QuantumProgram: dict name -> circuit
    qubit, unit, pulse_length, buffer_length,
    steps, gates_per_step, tot_length, time_per_step,
    qc_dict, circuits, result,
    keys_0_1, data, sigma_data, plot_factor, punit, xvals,
    fit, fcov, ferr,
    out,           \* the output area of every analysis cell
    submitted,     \* per run cell: the batches handed to the backend
    owner          \* which experiment's cell last wrote qc_dict / result

VARIABLES
    n, oracleType, oracleValue, a, djCircuit, answer, djpc

\* one call of pad_QId: its arguments, the circuit object it works on, the
\* value it returns and the position of the call
VARIABLES
    padArgs, padCircuit, padRet, padpc

vars == <<mode, pc, halted, nexec, defined, Q_program, qubit, unit, pulse_length,
          buffer_length, steps, gates_per_step, tot_length, time_per_step,
          qc_dict, circuits, result, keys_0_1, data, sigma_data, plot_factor,
          punit, xvals, fit, fcov, ferr, out, submitted, owner,
          n, oracleType, oracleValue, a, djCircuit, answer, djpc,
          padArgs, padCircuit, padRet, padpc>>

relaxVars == <<mode, pc, halted, nexec, defined, Q_program, qubit, unit, pulse_length,
          buffer_length, steps, gates_per_step, tot_length, time_per_step,
          qc_dict, circuits, result, keys_0_1, data, sigma_data, plot_factor,
          punit, xvals, fit, fcov, ferr, out, submitted, owner>>

djVars == <<n, oracleType, oracleValue, a, djCircuit, answer, djpc>>

padVars == <<padArgs, padCircuit, padRet, padpc>>

----------------------------------------------------------------------------
(* Bounds.  The notebook's step counts (10, 40, 20, 17) and gates per step *)
(* (80, 5, 20, 6) are scaled down; the order relation between the step     *)
(* counts of consecutive experiments (T2* has more steps than the echo     *)
(* experiment that follows it) is kept.                                    *)

StepsT1 == 2
StepsT2s == 3
StepsEcho == 2
StepsCPMG == 2
GatesT1 == 2
GatesT2s == 1
GatesEcho == 2
GatesCPMG == 1
MaxExec == 3
MaxN == 4
MaxPad == 3
MaxPadLen == 2

(* Program constants. *)
shots == 1024
num_echo == 7
num_osc == 4
RegSize == 5
dj_shots == 1000

----------------------------------------------------------------------------
(* Arithmetic helpers *)

Abs(x) == IF x < 0 THEN -x ELSE x

RECURSIVE GCD(_, _)
GCD(x, y) == IF y = 0 THEN x ELSE GCD(y, x % y)

\* the rational num/den (den # 0) in lowest terms with a positive denominator
Rat(num, den) ==
    LET g == GCD(Abs(num), Abs(den))
        s == IF den < 0 THEN -1 ELSE 1
    IN  <<(s * num) \div g, (s * den) \div g>>

RatMul(x, y) == Rat(x[1] * y[1], x[2] * y[2])
RatDiv(x, y) == Rat(x[1] * y[2], x[2] * y[1])
RatSub(x, y) == Rat(x[1] * y[2] - y[1] * x[2], x[2] * y[2])
RatInt(k) == <<k, 1>>
RatLeq(x, y) == x[1] * y[2] <= y[1] * x[2]

\* np.sqrt of a perfect square; -1 stands for a value that is no integer
\* (the root of a non-square, nan for a negative number)
Sqrt(x) ==
    IF x >= 0 /\ \E r \in 0..x : r * r = x THEN CHOOSE r \in 0..x : r * r = x ELSE -1

SeqToSet(s) == {s[i] : i \in 1..Len(s)}

----------------------------------------------------------------------------
(* Python containers *)

\* an insertion-ordered dict is a sequence of [k, v] entries with distinct keys
DictKeys(d) == [i \in 1..Len(d) |-> d[i].k]
DictHas(d, key) == \E i \in 1..Len(d) : d[i].k = key
DictGet(d, key) == (CHOOSE i \in 1..Len(d) : d[i].k = key)
DictVal(d, key) == d[DictGet(d, key)].v
\* a dict that does not keep the insertion order: a new key goes first
DictUpdateFront(d, key, val) ==
    IF DictHas(d, key)
    THEN [d EXCEPT ![DictGet(d, key)] = [k |-> key, v |-> val]]
    ELSE <<[k |-> key, v |-> val]>> \o d

\* d.update({key: val}) : replace in place, or append a new key at the end
DictUpdate(d, key, val) ==
    IF DictHas(d, key)
    THEN [d EXCEPT ![DictGet(d, key)] = [k |-> key, v |-> val]]
    ELSE Append(d, [k |-> key, v |-> val])

\* s.find(sub) for strings kept as sequences of characters
Find(s, sub) ==
    LET hits == {i \in 1..(Len(s) - Len(sub) + 1) : SubSeq(s, i, i + Len(sub) - 1) = sub}
    IN  IF hits = {} THEN -1 ELSE (CHOOSE i \in hits : \A j \in hits : i <= j) - 1

\* np.linspace(start, stop, num)[i], i counted from 0
linspace(start, stop, num, i) ==
    IF num = 1 THEN RatInt(start)
    ELSE Rat(start * (num - 1) + i * (stop - start), num - 1)

\* 'step_%s' % str(ii)
step_num(ii) == <<"step_", ii>>

----------------------------------------------------------------------------
(* Circuits: a circuit is the sequence of its operations *)

\* q: the qubit (-1: all qubits), t: the target of a cx, c: the classical bit
\* of a measurement
Gate(name, q) == [op |-> name, q |-> q, t |-> -1, c |-> -1, num |-> 0, den |-> 1]
CX(ctl, tgt) == [op |-> "cx", q |-> ctl, t |-> tgt, c |-> -1, num |-> 0, den |-> 1]
Measure(q, c) == [op |-> "measure", q |-> q, t |-> -1, c |-> c, num |-> 0, den |-> 1]
\* u1(theta) with theta = 2*pi*num/den
U1(num, den, q) == [op |-> "u1", q |-> q, t |-> -1, c |-> -1, num |-> num, den |-> den]

\* the identity gate before its barrier
RECURSIVE pad_QIdIdenFirst(_, _, _)
pad_QIdIdenFirst(circuit, N, qr) ==
    IF N <= 0 THEN circuit
    ELSE Append(Append(pad_QIdIdenFirst(circuit, N - 1, qr), Gate("iden", qr)),
                Gate("barrier", qr))

RECURSIVE pad_QId(_, _, _)
pad_QId(circuit, N, qr) ==
    IF N <= 0 THEN circuit
    ELSE Append(Append(pad_QId(circuit, N - 1, qr), Gate("barrier", qr)), Gate("iden", qr))

----------------------------------------------------------------------------
(* The four experiments of the relaxation notebook *)

E == {"T1", "T2s", "echo", "cpmg"}
ExpOrder == <<"T1", "T2s", "echo", "cpmg">>

\* the literals of the four construction cells
QubitOf(e) == IF e = "T2s" THEN 0 ELSE 3
StepsOf(e) ==
    CASE e = "T1" -> StepsT1 [] e = "T2s" -> StepsT2s
      [] e = "echo" -> StepsEcho [] OTHER -> StepsCPMG
GatesOf(e) ==
    CASE e = "T1" -> GatesT1 [] e = "T2s" -> GatesT2s
      [] e = "echo" -> GatesEcho [] OTHER -> GatesCPMG

\* time_per_step as each construction cell computes it
TimePerStepOf(e, gps, tot) ==
    CASE e = "T1" -> gps * tot
      [] e = "T2s" -> gps * tot
      [] e = "echo" -> (2 * gps) * tot
      [] OTHER -> ((num_echo + 1) * gps + num_echo) * tot

\* the body of "for iii in range(num_echo)" of the CPMG cell, run k times
RECURSIVE CPMGEchoes(_, _, _, _)
CPMGEchoes(circuit, k, N, q) ==
    IF k = 0 THEN circuit
    ELSE Append(pad_QId(CPMGEchoes(circuit, k - 1, N, q), N, q), Gate("x", q))

\* the same delay in every step
T1CircuitFixedDelay(ii, q, st, gps) ==
    LET c1 == <<Gate("x", q)>>
        c2 == pad_QId(c1, gps, q)
    IN  c2 \o <<Gate("barrier", q), Measure(q, q)>>

T1Circuit(ii, q, st, gps) ==
    LET c1 == <<Gate("x", q)>>
        c2 == pad_QId(c1, gps * ii, q)
    IN  c2 \o <<Gate("barrier", q), Measure(q, q)>>

T2sCircuit(ii, q, st, gps) ==
    LET c1 == <<Gate("h", q)>>
        c2 == pad_QId(c1, gps * ii, q)
    IN  c2 \o <<U1(num_osc * ii, st - 1, q), Gate("h", q),
                Gate("barrier", q), Measure(q, q)>>

\* no delay after the x gate
EchoCircuitOneSided(ii, q, st, gps) ==
    LET c1 == <<Gate("h", q)>>
        c2 == pad_QId(c1, gps * ii, q)
        c3 == Append(c2, Gate("x", q))
    IN  c3 \o <<Gate("h", q), Gate("barrier", q), Measure(q, q)>>

EchoCircuit(ii, q, st, gps) ==
    LET c1 == <<Gate("h", q)>>
        c2 == pad_QId(c1, gps * ii, q)
        c3 == Append(c2, Gate("x", q))
        c4 == pad_QId(c3, gps * ii, q)
    IN  c4 \o <<Gate("h", q), Gate("barrier", q), Measure(q, q)>>

\* one x gate fewer than num_echo
CPMGCircuitShort(ii, q, st, gps) ==
    LET c1 == <<Gate("h", q)>>
        c2 == CPMGEchoes(c1, num_echo - 1, gps * ii, q)
        c3 == pad_QId(c2, gps * ii, q)
    IN  c3 \o <<Gate("h", q), Gate("barrier", q), Measure(q, q)>>

CPMGCircuit(ii, q, st, gps) ==
    LET c1 == <<Gate("h", q)>>
        c2 == CPMGEchoes(c1, num_echo, gps * ii, q)
        c3 == pad_QId(c2, gps * ii, q)
    IN  c3 \o <<Gate("h", q), Gate("barrier", q), Measure(q, q)>>

CircuitOf(e, ii, q, st, gps) ==
    CASE e = "T1" -> T1Circuit(ii, q, st, gps)
      [] e = "T2s" -> T2sCircuit(ii, q, st, gps)
      [] e = "echo" -> EchoCircuit(ii, q, st, gps)
      [] OTHER -> CPMGCircuit(ii, q, st, gps)

\* the construction loop: qc_dict after the iterations 0..k-1
RECURSIVE BuildLoop(_, _, _, _, _)
BuildLoop(e, k, q, st, gps) ==
    IF k = 0 THEN <<>>
    ELSE DictUpdate(BuildLoop(e, k - 1, q, st, gps), step_num(k - 1),
                    CircuitOf(e, k - 1, q, st, gps))

\* Q_program.create_circuit(name, ...) registers the circuit under its name,
\* replacing a circuit registered under the same name
RECURSIVE RegisterAll(_, _, _)
RegisterAll(prog, qc, k) ==
    IF k = 0 THEN prog
    ELSE DictUpdate(RegisterAll(prog, qc, k - 1), qc[k].k, qc[k].v)

----------------------------------------------------------------------------
(* The backend: an opaque service.  Its parameters and its counts are      *)
(* inputs.                                                                 *)

PulseLengths == {80}
BufferLengths == {10}
Units == {<<"n", "s">>, <<"u", "s">>}
CountChoices == <<1, shots>>

\* the classical bits a circuit writes
MeasuredBits(circuit) ==
    {circuit[i].c : i \in {j \in 1..Len(circuit) : circuit[j].op = "measure"}}

\* the outcome key, cr[RegSize-1] first, when every measured bit reads m
OutcomeKey(circuit, m) ==
    [i \in 1..RegSize |-> IF (RegSize - i) \in MeasuredBits(circuit) THEN m ELSE 0]

\* the counts a circuit may come back with: one outcome only, or both
\* outcomes in either order of the keys
CountsOptions(circuit) ==
    LET K0 == OutcomeKey(circuit, 0)
        K1 == OutcomeKey(circuit, 1)
    IN  <<  <<[k |-> K1, v |-> shots]>>,
            <<[k |-> K0, v |-> shots]>> >>
        \o [i \in 1..Len(CountChoices) |->
              <<[k |-> K0, v |-> shots - CountChoices[i]], [k |-> K1, v |-> CountChoices[i]]>>]
        \o [i \in 1..Len(CountChoices) |->
              <<[k |-> K1, v |-> CountChoices[i]], [k |-> K0, v |-> shots - CountChoices[i]]>>]
NumOptions == 2 + 2 * Len(CountChoices)
\* the order of the outcome keys is read from the first circuit of a batch
\* only (keys_0_1); for the other circuits two cases are drawn: the excited
\* outcome alone, and both outcomes with CountChoices[1] excited shots
LaterOptions == {1, 3}

\* every registered circuit is submitted, whatever the names
BatchAll(prog, names) == [i \in 1..Len(prog) |-> prog[i]]
\* the last name is left out
BatchShort(prog, names) ==
    [i \in 1..(Len(names) - 1) |-> [k |-> names[i], v |-> DictVal(prog, names[i])]]

\* Q_program.execute(names, ...): the batch is the registered circuits of
\* the given names
Batch(prog, names) == [i \in 1..Len(names) |-> [k |-> names[i], v |-> DictVal(prog, names[i])]]

\* result.get_counts(name)
get_counts(res, name) == DictVal(res, name)

----------------------------------------------------------------------------
(* Initial state: the kernel after the import cell, the pad_QId cell and   *)
(* the settings cell (backend, shots, Q_program).                          *)

NoOut == [status |-> "none", plotted |-> FALSE, printed |-> <<>>,
          reads |-> <<>>, writes |-> <<>>, gets |-> 0, fits |-> 0,
          len |-> 0, qubit |-> -1,
          build |-> "none", run |-> "none", onbuild |-> "none", punit |-> <<>>]

InitRelax ==
    /\ pc = 1
    /\ halted = FALSE
    /\ nexec = 0
    /\ defined = {"shots", "backend", "Q_program"}
    /\ Q_program = <<>>
    /\ qubit = -1
    /\ unit = <<>>
    /\ pulse_length = 0
    /\ buffer_length = 0
    /\ steps = 0
    /\ gates_per_step = 0
    /\ tot_length = 0
    /\ time_per_step = 0
    /\ qc_dict = <<>>
    /\ circuits = <<>>
    /\ result = <<>>
    /\ keys_0_1 = <<>>
    /\ data = <<>>
    /\ sigma_data = <<>>
    /\ plot_factor = 0
    /\ punit = <<>>
    /\ xvals = <<>>
    /\ fit = [e \in E |-> <<>>]
    /\ fcov = <<>>
    /\ ferr = <<>>
    /\ out = [e \in E |-> NoOut]
    /\ submitted = [e \in E |-> <<>>]
    /\ owner = [qc |-> "none", res |-> "none", resqc |-> "none"]

----------------------------------------------------------------------------
(* Construction cells *)

Build(e) ==
    \E pl \in PulseLengths, bl \in BufferLengths, u \in Units :
        LET q == QubitOf(e)
            st == StepsOf(e)
            gps == GatesOf(e)
            tot == bl + pl
            qc == BuildLoop(e, st, q, st, gps)
        IN  /\ qubit' = q
            /\ pulse_length' = pl
            /\ buffer_length' = bl
            /\ unit' = u
            /\ steps' = st
            /\ gates_per_step' = gps
            /\ tot_length' = tot
            /\ time_per_step' = TimePerStepOf(e, gps, tot)
            /\ qc_dict' = qc
            /\ Q_program' = RegisterAll(Q_program, qc, Len(qc))
            /\ circuits' = DictKeys(qc)
            /\ defined' = defined \cup {"qubit", "unit", "steps", "time_per_step",
                                        "qc_dict", "circuits"}
            /\ owner' = [owner EXCEPT !.qc = e]
            /\ nexec' = nexec + 1
            /\ UNCHANGED <<result, keys_0_1, data, sigma_data, plot_factor, punit,
                           xvals, fit, fcov, ferr, out, submitted>>

BuildT1 == Build("T1")
BuildT2s == Build("T2s")
BuildEcho == Build("echo")
BuildCPMG == Build("cpmg")

----------------------------------------------------------------------------
(* Run cells: result = Q_program.execute(circuits, backend, shots, ...)    *)

\* NameError when circuits is not bound: nothing is assigned
RunRaises == "circuits" \notin defined

Run(e) ==
    /\ nexec' = nexec + 1
    /\ IF RunRaises
       THEN UNCHANGED <<defined, result, submitted, owner>>
       ELSE LET batch == Batch(Q_program, circuits)
                opts == [i \in 1..Len(batch) |-> CountsOptions(batch[i].v)]
            IN  \E f0 \in 1..NumOptions, f \in [2..Len(batch) -> LaterOptions] :
                  /\ result' = [i \in 1..Len(batch) |->
                                  [k |-> batch[i].k,
                                   v |-> opts[i][IF i = 1 THEN f0 ELSE f[i]]]]
                  /\ submitted' = [submitted EXCEPT ![e] =
                                     Append(@, [batch |-> batch, shots |-> shots])]
                  /\ defined' = defined \cup {"result"}
                  /\ owner' = [owner EXCEPT !.res = e, !.resqc = owner.qc]
    /\ UNCHANGED <<Q_program, qubit, unit, pulse_length, buffer_length, steps,
                   gates_per_step, tot_length, time_per_step, qc_dict, circuits,
                   keys_0_1, data, sigma_data, plot_factor, punit, xvals,
                   fit, fcov, ferr, out>>

----------------------------------------------------------------------------
(* Analysis cells *)

\* a percentage instead of a fraction
NormalizePercent(count, sh) == Rat(100 * count, sh)
\* data[ii] = float(count)/shots
Normalize(count, sh) == Rat(count, sh)

\* the division by sqrt(shots) left out
SigmaRadNoShots(d, sh) == RatMul(d, RatSub(RatInt(1), d))

\* sigma_data[ii] = np.sqrt(data[ii]*(1-data[ii]))/np.sqrt(shots), kept as
\* the radicand: sigma_data[ii] is the square root of SigmaRad
SigmaRad(d, sh) == RatDiv(RatMul(d, RatSub(RatInt(1), d)), RatInt(sh))

\* time_per_step*np.linspace(0,len,len)/plot_factor
XVals(tps, len, pf) ==
    [i \in 1..len |-> RatDiv(RatMul(RatInt(tps), linspace(0, len, len, i - 1)), RatInt(pf))]

\* the first row instead of the diagonal
diagFirstRow(m) == [k \in 1..Len(m) |-> m[1][k]]

\* np.diag(m) and np.sqrt of it, element by element
diag(m) == [k \in 1..Len(m) |-> m[k][k]]
SqrtAll(v) == [k \in 1..Len(v) |-> Sqrt(v[k])]

\* number of fitted parameters: exp_fit_fun(x, a, tau, c) and
\* osc_fit_fun(x, a, tau, f, phi, c)
NumParams(e) == IF e = "T2s" THEN 5 ELSE 3

\* what curve_fit may return: a parameter vector and a covariance matrix
FitChoices(p) == {[k \in 1..p |-> 10 * k]}
FcovChoices(p) ==
    {[i \in 1..p |-> [j \in 1..p |-> IF i = j THEN (b + i) * (b + i) ELSE o]] :
        b \in {1}, o \in {-1}}

\* the print statements of an analysis cell: label, index and factor of the
\* estimate, index and factor of the error, unit
PLine(label, ek, ef, rk, rf, u) ==
    [label |-> label, ek |-> ek, ef |-> ef, rk |-> rk, rf |-> rf, unit |-> u]
PrintLines(e) ==
    CASE e = "T1" -> <<PLine("a", 0, 1, 0, 1, ""), PLine("T1", 1, 1, 1, 1, "us"),
                       PLine("c", 2, 1, 2, 1, "")>>
      [] e = "T2s" -> <<PLine("a", 0, 1, 0, 1, ""), PLine("T2*", 1, 1, 1, 1, "us"),
                        PLine("f", 2, 1000, 2, 1000000, "kHz"),
                        PLine("phi", 3, 1, 3, 1, ""), PLine("c", 4, 1, 4, 1, "")>>
      [] OTHER -> <<PLine("a", 0, 1, 0, 1, ""), PLine("T2", 1, 1, 1, 1, "us"),
                    PLine("c", 2, 1, 2, 1, "")>>
Printed(e, f, fe) ==
    LET L == PrintLines(e)
    IN  [i \in 1..Len(L) |->
           [line |-> L[i], est |-> L[i].ef * f[L[i].ek + 1], err |-> L[i].rf * fe[L[i].rk + 1]]]

\* the exception is swallowed: the plot and the print statements still run
OutputAnyway(o, status, e, f, fe, pu) ==
    [o EXCEPT !.status = status, !.plotted = TRUE, !.punit = pu,
              !.printed = IF status = "ok" THEN Printed(e, f, fe)
                          ELSE [i \in 1..Len(PrintLines(e)) |->
                                  [line |-> PrintLines(e)[i], est |-> 0, err |-> 0]]]

\* the output area of a cell that ends with the given status: plot_coherence
\* and the print statements are the last statements of the cell
Output(o, status, e, f, fe, pu) ==
    IF status = "ok"
    THEN [o EXCEPT !.status = "ok", !.plotted = TRUE, !.punit = pu,
                   !.printed = Printed(e, f, fe)]
    ELSE [o EXCEPT !.status = status]

\* keys_0_1 = list(result.get_counts('step_0').keys()), data and sigma_data
\* set to zeros: the state of the cell before the data loop.  reads[i] and
\* writes[i] count the get_counts calls that returned for the i-th key of
\* qc_dict and the assignments to data[i-1]
LoopStart(qc, res) ==
    [k01 |-> DictKeys(get_counts(res, step_num(0))),
     data |-> [i \in 1..Len(qc) |-> RatInt(0)],
     sigma |-> [i \in 1..Len(qc) |-> RatInt(0)],
     reads |-> [i \in 1..Len(qc) |-> IF qc[i].k = step_num(0) THEN 1 ELSE 0],
     writes |-> [i \in 1..Len(qc) |-> 0],
     status |-> "ok"]

\* one iteration of "for ii,key in enumerate(qc_dict.keys())", ii = i-1
LoopBody(st, qc, res, sh, i) ==
    LET key == qc[i].k IN
    IF ~DictHas(res, key) THEN [st EXCEPT !.status = "QISKitError"]
    ELSE LET counts == get_counts(res, key)
             st1 == [st EXCEPT !.reads[i] = @ + 1]
         IN  IF Len(st.k01) < 2 THEN [st1 EXCEPT !.status = "IndexError"]
             ELSE IF ~DictHas(counts, st.k01[2]) THEN [st1 EXCEPT !.status = "KeyError"]
             ELSE LET d == Normalize(DictVal(counts, st.k01[2]), sh)
                  IN  [st1 EXCEPT !.data[i] = d, !.writes[i] = @ + 1,
                                  !.sigma[i] = SigmaRad(d, sh)]

\* the loop over the first k keys; it stops at the first iteration that raises
RECURSIVE DataLoop(_, _, _, _)
DataLoop(qc, res, sh, k) ==
    IF k = 0 THEN LoopStart(qc, res)
    ELSE LET st == DataLoop(qc, res, sh, k - 1)
         IN  IF st.status # "ok" THEN st ELSE LoopBody(st, qc, res, sh, k)

Analyze(e) ==
    /\ nexec' = nexec + 1
    /\ IF "result" \notin defined
       THEN /\ out' = [out EXCEPT ![e] = Output(NoOut, "NameError", e, <<>>, <<>>, <<>>)]
            /\ UNCHANGED <<defined, keys_0_1, data, sigma_data, plot_factor, punit,
                           xvals, fit, fcov, ferr>>
       ELSE
        LET len == Len(qc_dict)
            isns == Find(unit, <<"n", "s">>) > -1
            pf == IF isns THEN 1000 ELSE 1
            def1 == (IF isns THEN defined \cup {"punit"} ELSE defined)
                       \cup {"keys_0_1", "data", "sigma_data", "xvals"}
            pu == IF isns THEN <<"$", "\\", "m", "u", "$", "s">> ELSE punit
            st == DataLoop(qc_dict, result, shots, len)
            o1 == [NoOut EXCEPT !.reads = st.reads, !.writes = st.writes,
                                !.gets = 1, !.len = len, !.qubit = qubit,
                                !.build = owner.qc, !.run = owner.res,
                                !.onbuild = owner.resqc]
        IN  /\ keys_0_1' = st.k01
            /\ data' = st.data
            /\ sigma_data' = st.sigma
            /\ plot_factor' = pf
            /\ punit' = pu
            /\ xvals' = XVals(time_per_step, len, pf)
            /\ IF st.status # "ok"
               THEN /\ out' = [out EXCEPT ![e] = Output(o1, st.status, e, <<>>, <<>>, pu)]
                    /\ defined' = def1
                    /\ UNCHANGED <<fit, fcov, ferr>>
               ELSE
                 \/ \* curve_fit raises
                    /\ out' = [out EXCEPT ![e] =
                                 Output([o1 EXCEPT !.fits = 1], "RuntimeError", e, <<>>, <<>>, pu)]
                    /\ defined' = def1
                    /\ UNCHANGED <<fit, fcov, ferr>>
                 \/ \* curve_fit returns
                    \E f \in FitChoices(NumParams(e)), cov \in FcovChoices(NumParams(e)) :
                      LET fe == SqrtAll(diag(cov))
                      IN  /\ fit' = [fit EXCEPT ![e] = f]
                          /\ fcov' = cov
                          /\ ferr' = fe
                          /\ defined' = def1 \cup {"fit", "fcov", "ferr"}
                          /\ out' = [out EXCEPT ![e] =
                                Output([o1 EXCEPT !.fits = 1],
                                       IF "punit" \in def1 THEN "ok" ELSE "NameError",
                                       e, f, fe, pu)]
    /\ UNCHANGED <<Q_program, qubit, unit, pulse_length, buffer_length, steps,
                   gates_per_step, tot_length, time_per_step, qc_dict, circuits,
                   result, submitted, owner>>

----------------------------------------------------------------------------
(* Driving the notebook.  "Run All" executes the cells top to bottom and     *)
(* stops at the first cell that raises; in a live kernel the user may        *)
(* execute any cell at any time.                                             *)

\* position of a cell in the notebook: 3 cells per experiment
CellIndex(e, kind) ==
    3 * ((CHOOSE i \in 1..4 : ExpOrder[i] = e) - 1) + kind

Sched(e, kind) ==
    IF mode = "runall" THEN pc = CellIndex(e, kind) /\ ~halted
    ELSE mode = "kernel" /\ nexec < MaxExec

Advance(raised) ==
    /\ mode' = mode
    /\ pc' = IF mode = "runall" THEN pc + 1 ELSE pc
    /\ halted' = IF mode = "runall" THEN raised ELSE halted

CellBuildT1 == Sched("T1", 1) /\ BuildT1 /\ Advance(FALSE) /\ UNCHANGED <<djVars, padVars>>
CellBuildT2s == Sched("T2s", 1) /\ BuildT2s /\ Advance(FALSE) /\ UNCHANGED <<djVars, padVars>>
CellBuildEcho == Sched("echo", 1) /\ BuildEcho /\ Advance(FALSE) /\ UNCHANGED <<djVars, padVars>>
CellBuildCPMG == Sched("cpmg", 1) /\ BuildCPMG /\ Advance(FALSE) /\ UNCHANGED <<djVars, padVars>>
CellRun == \E e \in E : Sched(e, 2) /\ Run(e) /\ Advance(RunRaises) /\ UNCHANGED <<djVars, padVars>>
CellAnalyzeExp ==
    \E e \in E \ {"T2s"} :
        Sched(e, 3) /\ Analyze(e) /\ Advance(out'[e].status # "ok") /\ UNCHANGED <<djVars, padVars>>
CellAnalyzeT2s ==
    Sched("T2s", 3) /\ Analyze("T2s") /\ Advance(out'["T2s"].status # "ok")
    /\ UNCHANGED <<djVars, padVars>>

NextRelax ==
    \/ CellBuildT1 \/ CellBuildT2s \/ CellBuildEcho \/ CellBuildCPMG
    \/ CellRun \/ CellAnalyzeExp \/ CellAnalyzeT2s

----------------------------------------------------------------------------
(* The Deutsch-Josza notebook *)

Pow2(k) == 2 ^ k
Bit(b, i) == (b \div Pow2(i)) % 2
Flip(b, i) == IF Bit(b, i) = 1 THEN b - Pow2(i) ELSE b + Pow2(i)

\* the construction cell: djCircuit for register length nn
RECURSIVE HadamardAll(_, _)
HadamardAll(circuit, k) ==
    IF k = 0 THEN circuit ELSE Append(HadamardAll(circuit, k - 1), Gate("h", k - 1))

\* control and target of the cx exchanged
RECURSIVE BalancedOracleSwapped(_, _, _, _)
BalancedOracleSwapped(circuit, k, av, nn) ==
    IF k = 0 THEN circuit
    ELSE LET c == BalancedOracleSwapped(circuit, k - 1, av, nn)
         IN  IF Bit(av, k - 1) = 1 THEN Append(c, CX(nn, k - 1)) ELSE c

\* "for i in range(n): if (a & (1 << i)): djCircuit.cx(qr[i], qr[n])"
RECURSIVE BalancedOracle(_, _, _, _)
BalancedOracle(circuit, k, av, nn) ==
    IF k = 0 THEN circuit
    ELSE LET c == BalancedOracle(circuit, k - 1, av, nn)
         IN  IF Bit(av, k - 1) = 1 THEN Append(c, CX(k - 1, nn)) ELSE c

\* the constant oracle without its x gate
OracleNoValue(circuit, ot, ov, av, nn) ==
    IF ot = 0 THEN Append(circuit, Gate("iden", nn))
    ELSE BalancedOracle(circuit, nn, av, nn)

Oracle(circuit, ot, ov, av, nn) ==
    IF ot = 0
    THEN (IF ov = 1 THEN Append(circuit, Gate("x", nn)) ELSE Append(circuit, Gate("iden", nn)))
    ELSE BalancedOracle(circuit, nn, av, nn)

\* qr[i] measured into the classical bit counted from the other end
RECURSIVE MeasureAllReversed(_, _)
MeasureAllReversed(circuit, k) ==
    IF k = 0 THEN circuit
    ELSE Append(MeasureAllReversed(circuit, k - 1), Measure(k - 1, n - k))

RECURSIVE MeasureAll(_, _)
MeasureAll(circuit, k) ==
    IF k = 0 THEN circuit ELSE Append(MeasureAll(circuit, k - 1), Measure(k - 1, k - 1))

DJCircuit(nn, ot, ov, av) ==
    LET c1 == HadamardAll(<<>>, nn)
        c2 == c1 \o <<Gate("x", nn), Gate("h", nn), Gate("barrier", -1)>>
        c3 == Oracle(c2, ot, ov, av, nn)
        c4 == Append(c3, Gate("barrier", -1))
        c5 == HadamardAll(c4, nn)
    IN  MeasureAll(c5, nn)

\* The ideal backend: a state vector over the basis states 0..2^nq-1 (qubit i
\* is bit i).  Amplitudes are integers: every Hadamard leaves out its factor
\* 1/sqrt(2), which does not change which outcomes have probability zero.
ZeroState(nq) == [b \in 0..(Pow2(nq) - 1) |-> IF b = 0 THEN 1 ELSE 0]

ApplyGate(g, psi) ==
    CASE g.op = "h" ->
           [b \in DOMAIN psi |->
              LET b0 == IF Bit(b, g.q) = 1 THEN Flip(b, g.q) ELSE b
                  b1 == IF Bit(b, g.q) = 1 THEN b ELSE Flip(b, g.q)
              IN  IF Bit(b, g.q) = 0 THEN psi[b0] + psi[b1] ELSE psi[b0] - psi[b1]]
      [] g.op = "x" -> [b \in DOMAIN psi |-> psi[Flip(b, g.q)]]
      [] g.op = "cx" ->
           [b \in DOMAIN psi |-> psi[IF Bit(b, g.q) = 1 THEN Flip(b, g.t) ELSE b]]
      [] OTHER -> psi

RECURSIVE Simulate(_, _, _)
Simulate(circuit, k, psi) ==
    IF k = 0 THEN psi ELSE ApplyGate(circuit[k], Simulate(circuit, k - 1, psi))

\* the classical register (as a number, cr[i] is bit i) read in basis state b
ReadOut(circuit, b) ==
    LET ms == {i \in 1..Len(circuit) : circuit[i].op = "measure"}
        bits == {circuit[i].c : i \in {j \in ms : Bit(b, circuit[j].q) = 1}}
    IN  IF bits = {} THEN 0
        ELSE LET RECURSIVE Sum(_)
                 Sum(S) == IF S = {} THEN 0
                           ELSE LET x == CHOOSE y \in S : TRUE IN Pow2(x) + Sum(S \ {x})
             IN  Sum(bits)

\* the register values an ideal execution of the circuit can give
Outcomes(circuit, nq) ==
    LET psi == Simulate(circuit, Len(circuit), ZeroState(nq))
    IN  {ReadOut(circuit, b) : b \in {x \in DOMAIN psi : psi[x] # 0}}

\* the key of a register value: cr[nn-1] first
BitString(v, nn) == [i \in 1..nn |-> Bit(v, nn - i)]

\* the counts of sh shots in which the register values S were seen, in
\* increasing order of the value: an even split, the remainder to the last
RECURSIVE Histogram(_, _, _, _)
Histogram(S, nn, sh, each) ==
    IF S = {} THEN <<>>
    ELSE LET v == CHOOSE x \in S : \A y \in S : x <= y
         IN  <<[k |-> BitString(v, nn), v |-> IF S = {v} THEN sh ELSE each]>>
             \o Histogram(S \ {v}, nn, sh - each, each)

DJBuild ==
    /\ djpc = "build"
    /\ \E ot \in 0..1, ov \in 0..1 :
         \E av \in (IF ot = 0 THEN {a} ELSE 1..(Pow2(n) - 1)) :
            /\ oracleType' = ot
            /\ oracleValue' = ov
            /\ a' = av
            /\ djCircuit' = DJCircuit(n, ot, ov, av)
    /\ djpc' = "simulate"
    /\ UNCHANGED <<n, answer>>
    /\ UNCHANGED <<relaxVars, padVars>>

\* results = Q_program.execute([circuitName], backend simulator, shots);
\* answer = results.get_counts(circuitName)
DJSimulate ==
    /\ djpc = "simulate"
    /\ LET outs == Outcomes(djCircuit, n + 1)
       IN  \E v \in outs : \E S \in {{v}, outs} :
              answer' = Histogram(S, n, dj_shots, dj_shots \div Cardinality(S))
    /\ djpc' = "done"
    /\ UNCHANGED <<n, oracleType, oracleValue, a, djCircuit>>
    /\ UNCHANGED <<relaxVars, padVars>>

NextDJ == DJBuild \/ DJSimulate

DJIdle ==
    /\ n = 1 /\ oracleType = 0 /\ oracleValue = 0 /\ a = 0
    /\ djCircuit = <<>> /\ answer = <<>> /\ djpc = "idle"

PadIdle ==
    /\ padArgs = [circuit |-> <<>>, N |-> 0, qr |-> 0]
    /\ padCircuit = <<>> /\ padRet = <<>> /\ padpc = "idle"

Init == mode = "runall" /\ InitRelax /\ DJIdle /\ PadIdle
InitKernel == mode = "kernel" /\ InitRelax /\ DJIdle /\ PadIdle

Spec == Init /\ [][NextRelax]_vars
SpecKernel == InitKernel /\ [][NextRelax]_vars

\* the Deutsch-Josza kernel after the cell "n = 15", for the register lengths
\* 1..MaxN
InitDJ ==
    /\ mode = "dj" /\ InitRelax
    /\ n \in 1..MaxN
    /\ oracleType = 0 /\ oracleValue = 0 /\ a = 0
    /\ djCircuit = <<>> /\ answer = <<>> /\ djpc = "build"
    /\ PadIdle
SpecDJ == InitDJ /\ [][NextDJ]_vars

\* a call pad_QId(circuit, N, qr) on a circuit of at most MaxPadLen operations
PadQubits == {0, 3}
PadOps == {Gate("x", 3), Gate("h", 0), Gate("iden", 3), Gate("barrier", 3)}
RECURSIVE SeqsUpTo(_, _)
SeqsUpTo(S, k) ==
    IF k = 0 THEN {<<>>}
    ELSE LET T == SeqsUpTo(S, k - 1)
         IN  T \cup {Append(t, x) : t \in {u \in T : Len(u) = k - 1}, x \in S}

\* circuit.barrier(qr); circuit.iden(qr) act on the circuit object, which is
\* also the value returned
PadCall ==
    /\ padpc = "call"
    /\ padCircuit' = pad_QId(padCircuit, padArgs.N, padArgs.qr)
    /\ padRet' = padCircuit'
    /\ padpc' = "returned"
    /\ UNCHANGED padArgs
    /\ UNCHANGED <<relaxVars, djVars>>

NextPad == PadCall

InitPad ==
    /\ mode = "pad" /\ InitRelax /\ DJIdle
    /\ padArgs \in [circuit : SeqsUpTo(PadOps, MaxPadLen), N : 0..MaxPad, qr : PadQubits]
    /\ padCircuit = padArgs.circuit
    /\ padRet = <<>>
    /\ padpc = "call"
SpecPad == InitPad /\ [][NextPad]_vars

----------------------------------------------------------------------------
(* Properties *)

\* the analysis cell of e is the cell "Run All" executed last
JustAnalyzed(e) == mode = "runall" /\ pc = CellIndex(e, 3) + 1
AllAnalyzed == \A e \in E : out[e].status = "ok"

\* C1: in every analysis every entry of data, count/shots, lies in [0,1]
C1_Normalized ==
    \A i \in 1..Len(data) : RatLeq(RatInt(0), data[i]) /\ RatLeq(data[i], RatInt(1))

\* all four analyses have run, the last one with a probability strictly
\* between 0 and 1 and one at a bound
C1_Witness ==
    /\ AllAnalyzed
    /\ JustAnalyzed("cpmg")
    /\ \E i \in 1..Len(data) : data[i] \notin {RatInt(0), RatInt(1)}
    /\ \E i \in 1..Len(data) : out["cpmg"].writes[i] = 1 /\ data[i] \in {RatInt(0), RatInt(1)}

\* the keys of answer
AnswerKeys == {answer[i].k : i \in 1..Len(answer)}
AllZero(nn) == [i \in 1..nn |-> 0]

\* C2: on an ideal execution the measured register is all-zero when the
\* oracle is constant and never all-zero when the oracle is balanced
C2_DecisionRule ==
    djpc = "done" =>
        /\ oracleType = 0 => AnswerKeys = {AllZero(n)}
        /\ oracleType = 1 => AllZero(n) \notin AnswerKeys

\* a balanced oracle with more than one cx has been executed
C2_Witness ==
    /\ djpc = "done" /\ oracleType = 1 /\ n >= 2 /\ a = 3
    /\ AnswerKeys # {} /\ AllZero(n) \notin AnswerKeys

\* the analysis cell of e got as far as its data loop / went through it
LoopEntered(e) == out[e].gets = 1
LoopDone(e) ==
    /\ out[e].gets = 1
    /\ out[e].status \in {"ok", "RuntimeError", "NameError"}

\* C3: circuits is step_0, step_1, ... in that order, and data[ii] and
\* sigma_data[ii] are computed from the counts of circuit step_ii and written
\* once
C3_OrderedSteps ==
    /\ "circuits" \in defined =>
          /\ circuits = [i \in 1..steps |-> step_num(i - 1)]
          /\ DictKeys(qc_dict) = circuits
    /\ \A e \in E : (JustAnalyzed(e) /\ LoopEntered(e)) =>
          /\ Len(data) = StepsOf(e) /\ Len(sigma_data) = StepsOf(e)
          /\ \A i \in 1..Len(data) :
                /\ out[e].writes[i] <= 1
                /\ out[e].writes[i] = 1 =>
                     LET cnt == DictVal(get_counts(result, step_num(i - 1)), keys_0_1[2])
                     IN  /\ data[i] = Rat(cnt, shots)
                         /\ sigma_data[i] = SigmaRad(Rat(cnt, shots), shots)
                /\ LoopDone(e) => out[e].writes[i] = 1

\* the three steps of the T2* experiment analysed with different counts
C3_Witness ==
    /\ JustAnalyzed("T2s") /\ out["T2s"].status = "ok"
    /\ \E i, j \in 1..Len(data) : data[i] # data[j]

\* C4: xvals[ii] * plot_factor = ii * time_per_step for every step
C4_DelayOfStep ==
    \A e \in E : (JustAnalyzed(e) /\ LoopEntered(e)) =>
        \A i \in 1..Len(xvals) :
            RatMul(xvals[i], RatInt(plot_factor)) = RatInt((i - 1) * time_per_step)

C6_BinomialError ==
    \A i \in 1..Len(data) :
        /\ Len(sigma_data) = Len(data)
        /\ RatMul(sigma_data[i], RatInt(shots)) = RatMul(data[i], RatSub(RatInt(1), data[i]))
        /\ sigma_data[i][1] >= 0
        /\ sigma_data[i] = RatInt(0) <=> data[i] \in {RatInt(0), RatInt(1)}

\* an analysis with a step of count shots and a step of a count in between
C6_Witness ==
    /\ JustAnalyzed("echo") /\ out["echo"].status = "ok"
    /\ \E i \in 1..Len(data) : data[i] = RatInt(1) /\ sigma_data[i] = RatInt(0)
    /\ \E i \in 1..Len(data) : sigma_data[i] # RatInt(0)

\* the batch experiment e is expected to submit
ExpectedBatch(e) ==
    [i \in 1..StepsOf(e) |->
        [k |-> step_num(i - 1),
         v |-> CircuitOf(e, i - 1, QubitOf(e), StepsOf(e), GatesOf(e))]]
Ran(e) == mode = "runall" /\ pc > CellIndex(e, 2)
OneBatch(e) ==
    /\ (Ran(e) => /\ Len(submitted[e]) = 1
                  /\ submitted[e][1].batch = ExpectedBatch(e)
                  /\ submitted[e][1].shots = 1024)
    /\ (~Ran(e) => submitted[e] = <<>> /\ out[e].gets = 0)

\* C7: each experiment submits one batch of exactly its own circuits with
\* shots = 1024, and the analysis reads the counts after the run, once per
\* submitted circuit
C7_OneBatchReadOnce ==
    \A e \in E :
        /\ OneBatch(e)
        /\ LoopDone(e) => \A i \in 1..StepsOf(e) : out[e].reads[i] = 1

\* C7 as amended: the counts of step_0 are read twice (once for the outcome
\* keys, once in the data loop), those of every other circuit once
C7_OneBatchStep0Twice ==
    \A e \in E :
        /\ OneBatch(e)
        /\ LoopEntered(e) =>
              \A i \in 1..StepsOf(e) : out[e].reads[i] <= (IF i = 1 THEN 2 ELSE 1)
        /\ LoopDone(e) =>
              \A i \in 1..StepsOf(e) : out[e].reads[i] = (IF i = 1 THEN 2 ELSE 1)

\* the echo experiment analysed while a circuit of the T2* experiment is
\* still registered
C7_Witness ==
    /\ out["echo"].status = "ok"
    /\ Len(Q_program) > StepsOf("echo")
    /\ Len(submitted["echo"]) = 1

\* C8: when curve_fit raises, the exception leaves the cell: the run stops,
\* the fit is not tried again, nothing is plotted and nothing is printed
C8_FitFailure ==
    \A e \in E : out[e].status = "RuntimeError" =>
        /\ halted
        /\ out[e].fits = 1
        /\ ~out[e].plotted
        /\ out[e].printed = <<>>
        /\ fit[e] = <<>>

C8_Witness == out["T2s"].status = "RuntimeError" /\ out["T1"].status = "ok"

\* C9: ferr has one entry per fitted parameter (3 for the exponential fits,
\* 5 for the damped oscillation) and ferr[k]^2 = fcov[k][k]
C9_FerrIsSqrtDiag ==
    /\ "ferr" \in defined =>
          /\ Len(ferr) = Len(fcov)
          /\ \A k \in 1..Len(ferr) : ferr[k] * ferr[k] = fcov[k][k]
    /\ \A e \in E :
          (JustAnalyzed(e) /\ out[e].fits = 1 /\ out[e].status \in {"ok", "NameError"}) =>
              /\ Len(ferr) = (IF e = "T2s" THEN 5 ELSE 3)
              /\ Len(fit[e]) = Len(ferr)

\* the damped-oscillation fit with off-diagonal entries that differ from the
\* diagonal
C9_Witness ==
    /\ JustAnalyzed("T2s") /\ out["T2s"].status = "ok" /\ Len(ferr) = 5
    /\ \E k, j \in 1..5 : k # j /\ fcov[k][j] # fcov[k][k]

----------------------------------------------------------------------------
(* The circuits of the construction cells *)

\* the positions of the operations of a name in a circuit
Positions(circuit, name) == {i \in 1..Len(circuit) : circuit[i].op = name}
Min(S) == CHOOSE x \in S : \A y \in S : x <= y
Max(S) == CHOOSE x \in S : \A y \in S : x >= y
\* the qubit a circuit measures
MeasuredQubits(circuit) == {circuit[i].q : i \in Positions(circuit, "measure")}

\* qc_dict holds the circuits of experiment e
Built(e) == owner.qc = e /\ Len(qc_dict) = StepsOf(e)

\* C12: every circuit of the CPMG experiment holds exactly 7 x gates, all on
\* the measured qubit, all after the first h and before the last h
C12_SevenEchoes ==
    owner.qc = "cpmg" =>
        /\ Len(qc_dict) = StepsOf("cpmg")
        /\ \A i \in 1..Len(qc_dict) :
              LET c == qc_dict[i].v
                  X == Positions(c, "x")
                  H == Positions(c, "h")
              IN  /\ Cardinality(X) = 7
                  /\ Cardinality(H) = 2
                  /\ \A p \in X : /\ MeasuredQubits(c) = {c[p].q}
                                   /\ Min(H) < p /\ p < Max(H)

\* the CPMG circuits are built, the last one with identity gates in its gaps
C12_Witness ==
    /\ Built("cpmg") /\ StepsOf("cpmg") >= 2
    /\ Positions(qc_dict[Len(qc_dict)].v, "iden") # {}
    /\ Cardinality(Positions(qc_dict[Len(qc_dict)].v, "x")) = num_echo

----------------------------------------------------------------------------
(* The oracle of the Deutsch-Josza circuit as a function on bit strings *)

\* the operations of djCircuit between its two barriers
OracleOf(circuit) ==
    LET B == {i \in Positions(circuit, "barrier") : circuit[i].q = -1}
    IN  SubSeq(circuit, Min(B) + 1, Max(B) - 1)

\* a gate of the oracle acting on the basis state b
ClassicalGate(g, b) ==
    CASE g.op = "x" -> Flip(b, g.q)
      [] g.op = "cx" -> (IF Bit(b, g.q) = 1 THEN Flip(b, g.t) ELSE b)
      [] OTHER -> b

RECURSIVE ClassicalRun(_, _, _)
ClassicalRun(circuit, k, b) ==
    IF k = 0 THEN b ELSE ClassicalGate(circuit[k], ClassicalRun(circuit, k - 1, b))

\* the basis state the oracle maps |x>|0> to
OracleImage(x) == ClassicalRun(OracleOf(djCircuit), Len(OracleOf(djCircuit)), x)
\* f(x): the answer qubit qr[n] after the oracle, started in 0
OracleF(x) == Bit(OracleImage(x), n)

\* the bitwise inner product of x and av modulo 2
RECURSIVE Dot(_, _, _)
Dot(x, av, k) ==
    IF k = 0 THEN 0 ELSE (Dot(x, av, k - 1) + Bit(x, k - 1) * Bit(av, k - 1)) % 2

Inputs == 0..(Pow2(n) - 1)

\* C13: a balanced oracle has 1 <= a <= 2^n - 1, flips the answer qubit
\* exactly for the inputs whose inner product with a is odd, and gives 0 for
\* exactly half of the inputs; a constant oracle gives oracleValue for every
\* input
C13_OraclePromise ==
    djpc \in {"simulate", "done"} =>
        /\ oracleType = 1 =>
              /\ 1 <= a /\ a <= Pow2(n) - 1
              /\ \A x \in Inputs :
                    /\ OracleF(x) = Dot(x, a, n)
                    /\ OracleImage(x) % Pow2(n) = x
              /\ 2 * Cardinality({x \in Inputs : OracleF(x) = 0}) = Pow2(n)
        /\ oracleType = 0 => \A x \in Inputs : OracleF(x) = oracleValue

\* a balanced oracle of two cx gates on a register of at least three qubits
C13_Witness ==
    /\ djpc = "simulate" /\ oracleType = 1 /\ n >= 3 /\ a = 5
    /\ Len(OracleOf(djCircuit)) = 2
    /\ OracleF(1) = 1 /\ OracleF(5) = 0

\* C14: on an ideal execution with a balanced oracle the classical register,
\* cr[i] being bit i, reads the hidden parameter a in every shot
C14_MeasuresA ==
    (djpc = "done" /\ oracleType = 1) =>
        /\ AnswerKeys = {BitString(a, n)}
        /\ Outcomes(djCircuit, n + 1) = {a}
        /\ \A i \in 1..Len(answer) : answer[i].v = dj_shots

\* a hidden parameter whose bit string is not a palindrome has been measured
C14_Witness ==
    /\ djpc = "done" /\ oracleType = 1 /\ n = 3 /\ a = 6
    /\ answer = <<[k |-> <<1, 1, 0>>, v |-> dj_shots]>>

----------------------------------------------------------------------------
(* The outcome key of the analysis cells *)

\* the bit of qubit q in an outcome key (cr[RegSize-1] comes first)
KeyBit(key, q) == key[RegSize - q]

\* C15: in every analysis keys_0_1[1] is the outcome in which the measured
\* qubit reads 1, whatever the order of the keys of step_0's counts
C15_ExcitedKey ==
    \A e \in E :
        (JustAnalyzed(e) /\ LoopEntered(e) /\ Len(keys_0_1) >= 2) =>
            KeyBit(keys_0_1[2], qubit) = 1

\* C16: with counts that are non-empty and sum to shots for every circuit,
\* the data loop ends without an IndexError and without a KeyError
C16_LookupNeverFails ==
    \A e \in E :
        (LoopEntered(e) /\ \A i \in 1..Len(result) :
                              /\ Len(result[i].v) >= 1
                              /\ (IF Len(result[i].v) = 1 THEN result[i].v[1].v
                                  ELSE result[i].v[1].v + result[i].v[2].v) = shots) =>
            out[e].status \notin {"IndexError", "KeyError"}

----------------------------------------------------------------------------
(* pad_QId *)

\* C17: pad_QId(circuit, N, qr) keeps the operations of the circuit, appends
\* N times a barrier on qr followed by an identity gate on qr, returns the
\* circuit it was given, and changes nothing for N = 0
C17_PadAppends ==
    padpc = "returned" =>
        LET before == padArgs.circuit
            L == Len(before)
        IN  /\ Len(padCircuit) = L + 2 * padArgs.N
            /\ SubSeq(padCircuit, 1, L) = before
            /\ \A j \in 1..padArgs.N :
                  /\ padCircuit[L + 2 * j - 1] = Gate("barrier", padArgs.qr)
                  /\ padCircuit[L + 2 * j] = Gate("iden", padArgs.qr)
            /\ Cardinality({i \in (L + 1)..Len(padCircuit) : padCircuit[i].op = "iden"})
                   = padArgs.N
            /\ padRet = padCircuit
            /\ padArgs.N = 0 => padCircuit = before

\* a circuit that already ends with an identity gate padded with two more
C17_Witness ==
    /\ padpc = "returned" /\ padArgs.N = 2 /\ padArgs.qr = 3
    /\ padArgs.circuit = <<Gate("x", 3), Gate("iden", 3)>>
    /\ Len(padRet) = 6

----------------------------------------------------------------------------
(* The structure of the circuits *)

\* the number of identity gates among the operations lo..hi of a circuit
Idens(circuit, lo, hi) ==
    Cardinality({i \in lo..hi : circuit[i].op = "iden"})
\* the operations lo..hi are k identity gates on q, each after its barrier
IsPadding(circuit, lo, k, q) ==
    \A j \in 1..k : /\ circuit[lo + 2 * j - 2] = Gate("barrier", q)
                    /\ circuit[lo + 2 * j - 1] = Gate("iden", q)

Pulses(circuit) == Positions(circuit, "h") \cup Positions(circuit, "x")
\* the pulse that follows the pulse at position p
NextPulse(circuit, p) == Min({r \in Pulses(circuit) : r > p})
\* the gaps of a circuit, each named by the pulse that opens it
Gaps(circuit) == Pulses(circuit) \ {Max(Pulses(circuit))}

\* C19: in the echo and CPMG circuits every gap between two consecutive
\* pulses holds exactly gates_per_step*ii identity gates; the echo circuit
\* has 2 gaps, the CPMG circuit num_echo+1
C19_EqualGaps ==
    owner.qc \in {"echo", "cpmg"} =>
        \A i \in 1..Len(qc_dict) :
            LET c == qc_dict[i].v
                N == gates_per_step * (i - 1)
            IN  /\ c[Min(Pulses(c))].op = "h" /\ c[Max(Pulses(c))].op = "h"
                /\ Cardinality(Positions(c, "h")) = 2
                /\ Cardinality(Gaps(c)) = (IF owner.qc = "echo" THEN 2 ELSE num_echo + 1)
                /\ \A p \in Gaps(c) :
                      /\ Idens(c, p + 1, NextPulse(c, p) - 1) = N
                      /\ NextPulse(c, p) - p - 1 = 2 * N
                      /\ IsPadding(c, p + 1, N, qubit)
                /\ Idens(c, 1, Len(c)) = Cardinality(Gaps(c)) * N

\* the CPMG circuits are built, the last one with num_echo+1 gaps that are
\* not empty
C19_Witness ==
    /\ Built("cpmg") /\ out["echo"].len = StepsOf("echo")
    /\ LET c == qc_dict[Len(qc_dict)].v
       IN  /\ Cardinality(Gaps(c)) = 8
           /\ Idens(c, 1, Len(c)) >= 8

\* the number of gates (operations other than barriers) between the initial
\* pulse of a circuit and its final pulse, or its measurement when the
\* circuit has one pulse only (T1)
DelayGates(circuit) ==
    LET P == Pulses(circuit)
        lo == Min(P)
        hi == IF Cardinality(P) = 1 THEN Min(Positions(circuit, "measure")) ELSE Max(P)
    IN  Cardinality({i \in (lo + 1)..(hi - 1) : circuit[i].op # "barrier"})

\* C20: in each experiment step_{ii+1} has time_per_step / tot_length more
\* gates between its initial pulse and its final pulse (its measurement for
\* T1) than step_ii
C20_DelayIncrement ==
    owner.qc \in E =>
        \A i \in 1..(Len(qc_dict) - 1) :
            (DelayGates(qc_dict[i + 1].v) - DelayGates(qc_dict[i].v)) * tot_length
                = time_per_step

----------------------------------------------------------------------------
(* Units of the plot and of the printed lines *)

\* the analysis cell of e got as far as plot_coherence
ReachedPlot(e) ==
    JustAnalyzed(e) /\ out[e].fits = 1 /\ out[e].status \in {"ok", "NameError"}
\* the unit xvals is expressed in: time_per_step is in the unit of the
\* backend, and a division by 1000 turns ns into us
XvalsUnit == IF plot_factor = 1000 /\ unit = <<"n", "s">> THEN <<"u", "s">> ELSE unit
\* the unit a plot label stands for
LabelUnit(pu) == IF pu = <<"$", "\\", "m", "u", "$", "s">> THEN <<"u", "s">> ELSE <<>>

\* C21: in every analysis cell punit is assigned in that cell before
\* plot_coherence is called, whatever unit the backend reports, and the unit
\* shown is the unit of xvals
C21_UnitMatches ==
    \A e \in E : ReachedPlot(e) =>
        /\ Find(unit, <<"n", "s">>) > -1
        /\ out[e].status = "ok" /\ out[e].plotted
        /\ LabelUnit(out[e].punit) = XvalsUnit
        /\ \A i \in 1..Len(out[e].printed) :
              out[e].printed[i].line.unit = "us" => XvalsUnit = <<"u", "s">>

\* C22: in every printed line the estimate and the error have the same index
\* and the same conversion factor
C22_SameFactor ==
    \A e \in E : \A i \in 1..Len(out[e].printed) :
        LET p == out[e].printed[i]
        IN  /\ p.line.ek = p.line.rk
            /\ p.line.ef = p.line.rf
            /\ p.est = p.line.ef * fit[e][p.line.ek + 1]
            /\ (JustAnalyzed(e) /\ out[e].status = "ok") =>
                   p.err = p.line.ef * ferr[p.line.ek + 1]

====
